---- MODULE Spec2Model ----
(***************************************************************************)
(* Retrieval-augmented answer pipeline of the kiosk assistant:             *)
(*   DocumentModel.search_documents   (src/src/database/models.py)         *)
(*   RAGComponent.search              (src/src/components/rag.py)          *)
(*   RerankerComponent.rerank         (src/src/components/reranker.py)     *)
(*   LLMComponent                     (src/src/components/llm_inference.py)*)
(*   SessionManager                   (src/src/components/session_manager.py)*)
(*   ConversationalChatbot            (src/scripts/demo_llm_rag.py)        *)
(*                                                                         *)
(* Texts are represented by what the code reads of them: a document's      *)
(* content by its length in characters (slices become Min), a title by a   *)
(* string with a length table, a float score by an integer (similarities   *)
(* are cosine values scaled by SimScale, exact for the embeddings used).   *)
(* A Python dict is a function whose DOMAIN is its key set, so that        *)
(* 'rerank_score' in doc  is  "rerank_score" \in DOMAIN doc.               *)
(***************************************************************************)
EXTENDS Integers, Sequences, FiniteSets, TLC

VARIABLES
    documents,        \* rows of the documents table, in storage (id) order
    rag_kind,         \* what LLMComponent.rag_component is
    rag_initialized,  \* rag_component.is_initialized
    reranker,         \* LLMComponent.reranker_component (attached or not, its flags)
    use_reranker,     \* LLMComponent.use_reranker
    server_url,       \* LLMComponent.server_url ("None" until initialize)
    is_initialized,   \* LLMComponent.is_initialized
    last,             \* what generate_response did and returned, when it is the
                      \* latest operation (NoCall after any other operation)
    call,             \* the latest direct call of search / rerank / _build_prompt /
                      \* _post_process_response / check_server_health
    session,          \* the SessionManager: its fields
    chatbot           \* the ConversationalChatbot: its conversation_history

vars == <<documents, rag_kind, rag_initialized, reranker, use_reranker,
          server_url, is_initialized, last, call, session, chatbot>>

----------------------------------------------------------------------------
(* Bounds of the model *)

\* rows the documents table may hold
MaxDocs == 6
\* documents handed to a direct rerank call
MaxRerankDocs == 6
\* conversation turns handed to a direct _build_prompt call
MaxTurns == 2
\* pieces a raw response text is put together from
MaxPieces == 3
\* documents handed to a direct _format_rag_context call
MaxContextDocs == 6
\* add_to_history calls made on a SessionManager since its history was emptied
MaxSessionAdds == 12
\* add_to_history calls made on a chatbot since its history was emptied
MaxChatAdds == 23

----------------------------------------------------------------------------
(* Program constants *)

\* generate_response: rag_component.search(prompt, limit=20, ...)
RetrievalLimit == 20
\* generate_response: reranker_component.rerank(..., top_k=5) and rag_results[:5]
FinalTopK == 5
\* RerankerComponent.top_k = config.get('final_top_k', 5)
DefaultTopK == 5
\* _format_rag_context: sorted_results[:5]
MaxSources == 5
\* _format_rag_context: doc['content'][:600]
ContentCap == 600
\* _generate_fallback_response: top_result['content'][:200]
ExcerptCap == 200
\* similarity_threshold=0.3, as a percentage
ThresholdPct == 30
\* total character budget of the assembled context
ContextBudget == 2000

\* SessionManager.max_history = config...get('max_history', 10)
DefaultMaxHistory == 10
\* ConversationalChatbot.max_history = 10
ChatMaxHistory == 10

\* cosine values are kept as integers: similarity * SimScale
SimScale == 5 * 5

----------------------------------------------------------------------------
(* Python built-ins used by the code *)

Min(a, b) == IF a <= b THEN a ELSE b

\* s[:k] for k >= 0
Take(s, k) == SubSeq(s, 1, Min(k, Len(s)))

\* d.get(key, default)
Get(d, key, default) == IF key \in DOMAIN d THEN d[key] ELSE default

\* d[key] = value, on a dict
SetField(d, key, value) == (key :> value) @@ d

\* An Optional[int] argument is the empty set (None) or a singleton.
None == {}

Some(x) == {x}

TheValue(opt) == CHOOSE x \in opt : TRUE

\* "opt or default": None and 0 are both falsy
OrDefault(opt, default) ==
    IF opt = None \/ opt = Some(0) THEN default ELSE TheValue(opt)

\* position of element i after sorted(..., reverse=True): behind every element
\* with a larger key, and behind the earlier elements with an equal key
\* (Python's sort is stable, also under reverse=True)
RankDesc(keys, i) ==
    1 + Cardinality({j \in DOMAIN keys :
                        keys[j] > keys[i] \/ (keys[j] = keys[i] /\ j < i)})

\* sorted(s, key=..., reverse=True), keys[i] being the key of s[i]
SortedDesc(s, keys) ==
    [p \in 1..Len(s) |-> s[CHOOSE i \in 1..Len(s) : RankDesc(keys, i) = p]]

----------------------------------------------------------------------------
(* DocumentModel: the documents table and the similarity search over it *)

\* embeddings whose norms are whole numbers, so that cosine * SimScale is exact
Embeddings == {<<1, 0>>, <<0, 1>>, <<3, 4>>, <<4, 3>>, <<0, 0>>}

Dot(v1, v2) == v1[1] * v2[1] + v1[2] * v2[2]

\* np.linalg.norm
Norm(v) == CHOOSE n \in 0..5 : n * n = Dot(v, v)

\* DocumentModel._cosine_similarity, times SimScale
CosineSimilarity(v1, v2) ==
    IF Norm(v1) = 0 \/ Norm(v2) = 0
    THEN 0
    ELSE (SimScale * Dot(v1, v2)) \div (Norm(v1) * Norm(v2))

\* the result dict search_documents builds from a row (metadata and
\* created_at are carried along unread by the pipeline and left out)
ResultDoc(row, query_embedding) ==
    [id |-> row.id, title |-> row.title, content |-> row.content,
     similarity |-> CosineSimilarity(query_embedding, row.embedding),
     category |-> row.category, language |-> row.language]

\* a WHERE clause joining its conditions with OR
RowMatchesEither(row, category, language) ==
    \/ (category # "" /\ row.category = category)
    \/ (language # "" /\ row.language = language)
    \/ (category = "" /\ language = "")

\* the WHERE clause: "if category:" and "if language:" skip None and ""
RowMatches(row, category, language) ==
    /\ (category # "" => row.category = category)
    /\ (language # "" => row.language = language)

\* search_documents without its results.sort(...)
SearchDocumentsUnsorted(rows, query_embedding, limit, category, language, db_ok) ==
    IF ~db_ok
    THEN <<>>
    ELSE LET matching == SelectSeq(rows, LAMBDA r : RowMatches(r, category, language))
             results == [i \in 1..Len(matching) |-> ResultDoc(matching[i], query_embedding)]
         IN  Take(results, limit)

\* search_documents taking results[:limit] before results.sort(...)
SearchDocumentsSlicesFirst(rows, query_embedding, limit, category, language, db_ok) ==
    IF ~db_ok
    THEN <<>>
    ELSE LET matching == SelectSeq(rows, LAMBDA r : RowMatches(r, category, language))
             results == [i \in 1..Len(matching) |-> ResultDoc(matching[i], query_embedding)]
             head == Take(results, limit)
             keys == [i \in 1..Len(head) |-> head[i].similarity]
         IN  SortedDesc(head, keys)

\* DocumentModel.search_documents; db_ok = FALSE is the store raising, which
\* the method catches and answers with []
SearchDocuments(rows, query_embedding, limit, category, language, db_ok) ==
    IF ~db_ok
    THEN <<>>
    ELSE LET matching == SelectSeq(rows, LAMBDA r : RowMatches(r, category, language))
             results == [i \in 1..Len(matching) |-> ResultDoc(matching[i], query_embedding)]
             keys == [i \in 1..Len(results) |-> results[i].similarity]
         IN  Take(SortedDesc(results, keys), limit)

\* RAGComponent.search(query, limit, category, language): embed_ok = FALSE is
\* embedding_model.encode raising
RAGSearch(initialized, rows, query_embedding, embed_ok, limit, category, language, db_ok) ==
    IF ~initialized
    THEN <<>>
    ELSE IF ~embed_ok
         THEN <<>>
         ELSE SearchDocuments(rows, query_embedding, limit, category, language, db_ok)

\* A retriever whose search accepts the similarity_threshold keyword that
\* generate_response passes: RAGComponent.search followed by the threshold
\* as a post-filter (similarity > threshold, the comparison of
\* KnowledgeBaseRepository.search_similar_documents).
ThresholdSearch(initialized, rows, query_embedding, embed_ok, limit, threshold_pct, db_ok) ==
    SelectSeq(RAGSearch(initialized, rows, query_embedding, embed_ok, limit, "", "", db_ok),
              LAMBDA d : d.similarity * 100 > threshold_pct * SimScale)

----------------------------------------------------------------------------
(* RerankerComponent *)

\* cross-encoder outcome: model.predict(pairs) raises, or returns one score
\* for every pair
Raises == [raises |-> TRUE, scores |-> <<>>]

Scores(s) == [raises |-> FALSE, scores |-> s]

\* rerank that marks the documents but returns them in input order
RerankKeepsInputOrder(self, docs, top_k, predict) ==
    IF ~self.use_reranker \/ ~self.is_initialized \/ docs = <<>> \/ predict.raises
    THEN [result |-> IF ~self.use_reranker \/ ~self.is_initialized \/ docs # <<>>
                     THEN Take(docs, OrDefault(top_k, self.top_k))
                     ELSE <<>>,
          documents |-> docs, scored |-> FALSE]
    ELSE LET marked == [i \in 1..Len(docs) |->
                           SetField(docs[i], "rerank_score", predict.scores[i])]
         IN  [result |-> Take(marked, OrDefault(top_k, self.top_k)),
              documents |-> marked, scored |-> TRUE]

\* RerankerComponent.rerank and rerank_sync (the same body). The input list
\* holds the caller's dicts: "documents" is that list after the call, since
\* doc['rerank_score'] = ... writes into the caller's objects.
Rerank(self, docs, top_k, predict) ==
    IF ~self.use_reranker \/ ~self.is_initialized
    THEN [result |-> Take(docs, OrDefault(top_k, self.top_k)),
          documents |-> docs, scored |-> FALSE]
    ELSE IF docs = <<>>
    THEN [result |-> <<>>, documents |-> docs, scored |-> FALSE]
    ELSE IF predict.raises
    THEN [result |-> Take(docs, OrDefault(top_k, self.top_k)),
          documents |-> docs, scored |-> FALSE]
    ELSE LET k == OrDefault(top_k, self.top_k)
             marked == [i \in 1..Len(docs) |->
                           SetField(docs[i], "rerank_score", predict.scores[i])]
             keys == [i \in 1..Len(docs) |-> marked[i]["rerank_score"]]
         IN  [result |-> Take(SortedDesc(marked, keys), k),
              documents |-> marked, scored |-> TRUE]

----------------------------------------------------------------------------
(* LLMComponent: context assembly *)

Titles == {"Admissions", "Library", "Hostels"}

\* len(title)
TitleLen(t) ==
    CASE t = "Admissions" -> 10
      [] t = "Library" -> 7
      [] t = "Hostels" -> 7
      [] t = "Unknown" -> 7
      [] t = "Welcome to Kiosk" -> 16
      [] t = "Services Available" -> 18
      [] t = "How to Use" -> 10
      [] OTHER -> 0

\* number of decimal digits of n >= 0 (below 1000)
Digits(n) == IF n < 10 THEN 1 ELSE IF n < 100 THEN 2 ELSE 3

\* len(f"{x:.3f}") for x = whole / scale: sign, integer digits, point, 3 decimals
Fmt3fLen(whole, scale) ==
    LET a == IF whole < 0 THEN 0 - whole ELSE whole
    IN  (IF whole < 0 THEN 1 ELSE 0) + Digits(a \div scale) + 4

\* score_info showing the similarity whenever the dict has one
ScoreInfoPrefersSimilarity(doc) ==
    IF "similarity" \in DOMAIN doc
    THEN [field |-> "similarity", value |-> doc["similarity"],
          len |-> 14 + Fmt3fLen(doc["similarity"], SimScale) + 1]
    ELSE IF "rerank_score" \in DOMAIN doc
    THEN [field |-> "relevance", value |-> doc["rerank_score"],
          len |-> 13 + Fmt3fLen(doc["rerank_score"], 1) + 1]
    ELSE [field |-> "none", value |-> 0, len |-> 0]

\* score_info of a block: the rerank score if the dict has one, otherwise
\* the similarity, otherwise nothing
ScoreInfo(doc) ==
    IF "rerank_score" \in DOMAIN doc
    THEN [field |-> "relevance", value |-> doc["rerank_score"],
          len |-> 13 + Fmt3fLen(doc["rerank_score"], 1) + 1]
    ELSE IF "similarity" \in DOMAIN doc
    THEN [field |-> "similarity", value |-> doc["similarity"],
          len |-> 14 + Fmt3fLen(doc["similarity"], SimScale) + 1]
    ELSE [field |-> "none", value |-> 0, len |-> 0]

\* SourceBlock quoting the whole content
SourceBlockUncapped(i, doc) ==
    LET source == Get(doc, "title", "Unknown")
        info == ScoreInfo(doc)
        content == doc["content"]
    IN  [index |-> i, source |-> source, score |-> [field |-> info.field, value |-> info.value],
         doc |-> doc.id, content |-> content,
         len |-> 1 + 8 + Digits(i) + 2 + TitleLen(source) + info.len + 1 + 1 + content]

\* one element of context_parts: "\n[Source i: title score_info]\n" + content[:600]
\* ("doc" names the document whose content is quoted)
SourceBlock(i, doc) ==
    LET source == Get(doc, "title", "Unknown")
        info == ScoreInfo(doc)
        content == Min(doc["content"], ContentCap)
    IN  [index |-> i, source |-> source, score |-> [field |-> info.field, value |-> info.value],
         doc |-> doc.id, content |-> content,
         len |-> 1 + 8 + Digits(i) + 2 + TitleLen(source) + info.len + 1 + 1 + content]

RECURSIVE SumLen(_)
SumLen(blocks) ==
    IF blocks = <<>> THEN 0 ELSE Head(blocks).len + SumLen(Tail(blocks))

\* LLMComponent._format_rag_context: the blocks in rendered order and
\* len("\n".join(["CONTEXT:"] + blocks)); no results give the empty string
\* sorted(rag_results, key=lambda x: x.get('similarity', 0), reverse=True)
SortBySimilarity(rag_results) ==
    SortedDesc(rag_results,
               [i \in 1..Len(rag_results) |-> Get(rag_results[i], "similarity", 0)])

\* lines 76-91: "CONTEXT:" and one block for each of sorted_results[:5]
RenderSources(sorted_results) ==
    LET shown == Take(sorted_results, MaxSources)
        blocks == [i \in 1..Len(shown) |-> SourceBlock(i, shown[i])]
    IN  [blocks |-> blocks, len |-> 8 + Len(blocks) + SumLen(blocks)]

\* _format_rag_context sorting by similarity whatever the flag
FormatRagContextAlwaysSorts(rag_results, use_rerank_order) ==
    IF rag_results = <<>>
    THEN [blocks |-> <<>>, len |-> 0]
    ELSE RenderSources(SortBySimilarity(rag_results))

FormatRagContext(rag_results, use_rerank_order) ==
    IF rag_results = <<>>
    THEN [blocks |-> <<>>, len |-> 0]
    ELSE RenderSources(IF ~use_rerank_order
                       THEN SortBySimilarity(rag_results)
                       ELSE rag_results)

\* _format_rag_context cutting the content of the documents it renders in
\* place (doc['content'] = doc['content'][:600])
FormatRagContextCutsInPlace(rag_results, use_rerank_order) ==
    [context |-> FormatRagContext(rag_results, use_rerank_order),
     rag_results |-> [i \in 1..Len(rag_results) |->
                        [rag_results[i] EXCEPT !["content"] = Min(@, ContentCap)]]]

\* a call of _format_rag_context as its caller sees it: the string returned
\* and the list passed, after the call. The method builds a new list with
\* sorted() or reads the list as it is, and assigns to no document.
FormatRagContextCall(rag_results, use_rerank_order) ==
    [context |-> FormatRagContext(rag_results, use_rerank_order),
     rag_results |-> rag_results]

\* the documents of a context, in rendered order
RenderedDocs(context) == [i \in 1..Len(context.blocks) |-> context.blocks[i].doc]

\* the ids of a document list, in list order
Ids(docs) == [i \in 1..Len(docs) |-> docs[i].id]

----------------------------------------------------------------------------
(* LLMComponent: prompt assembly *)

\* A prompt is the sequence of its parts, each a line group of the text:
\* what kind of part it is, the role that prefixes it (conversation turns
\* only), its text, and for the context part the source blocks it holds.
PromptPart(part, role, text, blocks) ==
    [part |-> part, role |-> role, text |-> text, blocks |-> blocks]

\* _build_system_prompt
BuildSystemPrompt ==
    PromptPart("system", "", "You are an IIITM Gwalior information assistant.", <<>>)

\* the question asked in the pipeline runs
Question == "What is IIITM?"

\* conversation_history=None
NoHistory == <<>>

\* LLMComponent._build_prompt: the system prompt, the context when the
\* context string is not empty, "Question: ..." and "Answer:". The
\* conversation_history parameter is not read.
BuildPrompt(user_query, rag_context, conversation_history) ==
    <<BuildSystemPrompt>>
    \o (IF rag_context.len > 0
        THEN <<PromptPart("context", "", "CONTEXT:", rag_context.blocks)>>
        ELSE <<>>)
    \o <<PromptPart("question", "", user_query, <<>>),
         PromptPart("answer_cue", "", "Answer:", <<>>)>>

----------------------------------------------------------------------------
(* LLMComponent: answers *)

\* an answer string: which text it is and, for the extractive fallback, the
\* title and the length of the excerpt it quotes
Answer(kind) == [kind |-> kind, title |-> "", doc |-> 0, excerpt |-> 0]

\* generate_response's "return None"
NoAnswer == Answer("None")

\* "I apologize, but I'm unable to process your request at the moment. The
\* LLM server is not available and I couldn't find relevant information ..."
Apology == Answer("apology")

\* LLMComponent._generate_fallback_response
GenerateFallbackResponse(rag_results) ==
    IF rag_results # <<>>
    THEN [kind |-> "extractive", title |-> rag_results[1].title,
          doc |-> rag_results[1].id,
          excerpt |-> Min(rag_results[1].content, ExcerptCap)]
    ELSE Apology

\* what the POST /v1/completions can come to: 200 with a text that survives
\* post-processing, 200 with no choices or an empty text, another status,
\* requests.exceptions.Timeout, or any other exception (connection refused,
\* a body that is not JSON)
CompletionOutcomes ==
    {"text", "empty_text", "non_200", "timeout", "connection_error"}

\* _call_llm_server letting the timeout propagate like any other exception
CallLLMServerTimeoutRaises(outcome) ==
    CASE outcome = "text" -> [raised |-> FALSE, text |-> Answer("generated")]
      [] outcome = "empty_text" -> [raised |-> FALSE, text |-> Answer("could_not_generate")]
      [] outcome = "non_200" -> [raised |-> FALSE, text |-> Answer("technical_difficulties")]
      [] OTHER -> [raised |-> TRUE, text |-> NoAnswer]

\* LLMComponent._call_llm_server: the string returned, or raised = TRUE for
\* the "except Exception: raise" branch
CallLLMServer(outcome) ==
    CASE outcome = "text" -> [raised |-> FALSE, text |-> Answer("generated")]
      [] outcome = "empty_text" -> [raised |-> FALSE, text |-> Answer("could_not_generate")]
      [] outcome = "non_200" -> [raised |-> FALSE, text |-> Answer("technical_difficulties")]
      [] outcome = "timeout" -> [raised |-> FALSE, text |-> Answer("took_too_long")]
      [] OTHER -> [raised |-> TRUE, text |-> NoAnswer]

----------------------------------------------------------------------------
(* LLMComponent.generate_response *)

\* what rag_component is: absent, this repository's RAGComponent, or a
\* retriever whose search takes the similarity_threshold keyword
RagKinds == {"None", "RAGComponent", "ThresholdRetriever"}

\* lines 107-114: the search call. RAGComponent.search(query, limit,
\* category, language) has no similarity_threshold parameter, so the call
\* made here raises TypeError before its body runs.
SearchStep(use_rag, query_embedding, embed_ok, db_ok) ==
    IF use_rag /\ rag_kind # "None"
    THEN IF rag_kind = "RAGComponent"
         THEN [raised |-> TRUE, searched |-> TRUE, results |-> <<>>]
         ELSE [raised |-> FALSE, searched |-> TRUE,
               results |-> ThresholdSearch(rag_initialized, documents, query_embedding,
                                           embed_ok, RetrievalLimit, ThresholdPct, db_ok)]
    ELSE [raised |-> FALSE, searched |-> FALSE, results |-> <<>>]

\* lines 119-139, for non-empty rag_results. The log line at 131 formats
\* rag_results[0].get('rerank_score', 'N/A') with :.3f, which raises
\* ValueError when the first document carries no rerank score.
RerankStep(rag_results, predict) ==
    IF use_reranker /\ reranker.attached /\ reranker.is_initialized
    THEN LET r == Rerank(reranker, rag_results, Some(FinalTopK), predict)
         IN  IF r.result # <<>>
             THEN [raised |-> "rerank_score" \notin DOMAIN r.result[1],
                   called |-> TRUE, scored |-> r.scored,
                   used_reranking |-> TRUE, results |-> r.result]
             ELSE [raised |-> FALSE, called |-> TRUE, scored |-> r.scored,
                   used_reranking |-> FALSE, results |-> r.result]
    ELSE [raised |-> FALSE, called |-> FALSE, scored |-> FALSE,
          used_reranking |-> FALSE, results |-> Take(rag_results, FinalTopK)]

NoRerank == [raised |-> FALSE, called |-> FALSE, scored |-> FALSE,
             used_reranking |-> FALSE, results |-> <<>>]

NoContext == [blocks |-> <<>>, len |-> 0]

\* the completion call made whatever is_initialized says
AnswerStepAlwaysAttempts(initialized, use_rag, rag_results, completion) ==
    LET c == CallLLMServer(IF completion = "none" THEN "text" ELSE completion)
    IN  [raised |-> c.raised, attempted |-> TRUE, response |-> c.text]

\* the completion call made when the latest check_server_health found the
\* server healthy, whatever is_initialized says
AnswerStepFollowsHealthCheck(initialized, use_rag, rag_results, completion) ==
    IF call.op = "check_server_health" /\ call.healthy
    THEN LET c == CallLLMServer(IF completion = "none" THEN "text" ELSE completion)
         IN  [raised |-> c.raised, attempted |-> TRUE, response |-> c.text]
    ELSE [raised |-> FALSE, attempted |-> FALSE,
          response |-> GenerateFallbackResponse(IF use_rag THEN rag_results ELSE <<>>)]

\* lines 150-155: the completion call when is_initialized, the fallback
\* otherwise
AnswerStep(initialized, use_rag, rag_results, completion) ==
    IF initialized
    THEN LET c == CallLLMServer(completion)
         IN  [raised |-> c.raised, attempted |-> TRUE, response |-> c.text]
    ELSE [raised |-> FALSE, attempted |-> FALSE,
          response |-> GenerateFallbackResponse(IF use_rag THEN rag_results ELSE <<>>)]

\* The whole call: any exception inside the try block ends in "return None".
GenerateResponseResult(use_rag, query_embedding, embed_ok, db_ok, predict, completion) ==
    LET s == SearchStep(use_rag, query_embedding, embed_ok, db_ok)
        r == IF ~s.raised /\ s.results # <<>> THEN RerankStep(s.results, predict) ELSE NoRerank
        reached_context == ~s.raised /\ s.results # <<>> /\ ~r.raised
        context == IF reached_context
                   THEN FormatRagContext(r.results, r.used_reranking)
                   ELSE NoContext
        rag_results == IF s.results # <<>> THEN r.results ELSE <<>>
        reached_answer == ~s.raised /\ ~r.raised
        a == AnswerStep(is_initialized, use_rag, rag_results, completion)
    IN  [called |-> TRUE,
         use_rag |-> use_rag,
         searched |-> s.searched,
         retrieved |-> Ids(s.results),
         rerank_called |-> r.called,
         rerank_scored |-> r.scored,
         rerank_result |-> IF r.called THEN Ids(r.results) ELSE <<>>,
         used_reranking |-> r.used_reranking,
         final |-> IF reached_context THEN Ids(rag_results) ELSE <<>>,
         context_built |-> reached_context,
         context |-> context,
         prompt |-> IF reached_answer
                    THEN BuildPrompt(Question, context, NoHistory)
                    ELSE <<>>,
         initialized |-> is_initialized,
         attempted |-> reached_answer /\ a.attempted,
         completion |-> IF reached_answer /\ a.attempted THEN completion ELSE "none",
         raised |-> s.raised \/ r.raised \/ (reached_answer /\ a.raised),
         response |-> IF reached_answer /\ ~a.raised THEN a.response ELSE NoAnswer]

NoCall ==
    [called |-> FALSE, use_rag |-> FALSE, searched |-> FALSE, retrieved |-> <<>>,
     rerank_called |-> FALSE, rerank_scored |-> FALSE, rerank_result |-> <<>>,
     used_reranking |-> FALSE, final |-> <<>>, context_built |-> FALSE,
     context |-> NoContext, prompt |-> <<>>, initialized |-> FALSE, attempted |-> FALSE,
     completion |-> "none", raised |-> FALSE, response |-> NoAnswer]

----------------------------------------------------------------------------
(* Conversation histories: SessionManager and ConversationalChatbot.      *)
(* An entry is identified by its number in the order of the add_to_history *)
(* calls made since the history was last emptied ("added" counts them).    *)

\* s[-n:] for n >= 0; s[-0:] is s[0:], the whole list
LastN(s, n) ==
    IF n = 0 \/ n >= Len(s) THEN s ELSE SubSeq(s, Len(s) - n + 1, Len(s))

\* SessionManager.__init__
NewSessionManager(max_history) ==
    [constructed |-> TRUE, current_session_id |-> "None",
     conversation_history |-> <<>>, added |-> 0, max_history |-> max_history]

\* no SessionManager in this process
NoSession ==
    [constructed |-> FALSE, current_session_id |-> "None",
     conversation_history |-> <<>>, added |-> 0, max_history |-> DefaultMaxHistory]

\* SessionManager.start_session: a new id and start time, an empty history
StartedSession(self) ==
    [self EXCEPT !.current_session_id = "uuid", !.conversation_history = <<>>,
                 !.added = 0]

\* SessionManager.end_session
EndedSession(self) ==
    IF self.current_session_id # "None"
    THEN [self EXCEPT !.current_session_id = "None", !.conversation_history = <<>>,
                      !.added = 0]
    ELSE self

\* await is_session_active(): False without a session; on a timed-out
\* session it ends the session and is False
IsSessionActive(self, timed_out) ==
    IF self.current_session_id = "None"
    THEN [active |-> FALSE, self |-> self]
    ELSE IF timed_out
    THEN [active |-> FALSE, self |-> EndedSession(self)]
    ELSE [active |-> TRUE, self |-> self]

\* add_to_history tests "not self.is_session_active()" without await: the
\* call returns a coroutine object, which is truthy, and its body never runs
UnawaitedIsSessionActive == TRUE

\* SessionManager.add_to_history; "sender" is not a key of the interaction
\* dict: it records whose request the user_input came with
AddedToHistoryFrom(self, sender) ==
    LET started == IF ~UnawaitedIsSessionActive THEN StartedSession(self) ELSE self
        interaction == [user_input |-> started.added + 1, response |-> started.added + 1,
                        sender |-> sender]
        history == Append(started.conversation_history, interaction)
    IN  [started EXCEPT
            !.added = started.added + 1,
            !.conversation_history =
                IF Len(history) > started.max_history
                THEN LastN(history, started.max_history)
                ELSE history]

\* SessionManager.add_to_history, of the kiosk's one visitor
AddedToHistory(self) == AddedToHistoryFrom(self, "visitor")

\* ConversationalChatbot.__init__
NewChatbot == [constructed |-> TRUE, conversation_history |-> <<>>, added |-> 0]

\* no ConversationalChatbot in this process
NoChatbot == [constructed |-> FALSE, conversation_history |-> <<>>, added |-> 0]

\* ConversationalChatbot.add_to_history(role, content)
ChatAddedToHistory(self, role) ==
    LET history == Append(self.conversation_history,
                          [role |-> role, content |-> self.added + 1])
    IN  [self EXCEPT
            !.added = self.added + 1,
            !.conversation_history =
                IF Len(history) > ChatMaxHistory * 2
                THEN LastN(history, ChatMaxHistory * 2)
                ELSE history]

----------------------------------------------------------------------------
(* State, construction and operations *)

\* embedding_model.encode of the three sample contents (a fixed function of
\* the text; these three values stand for it)
SampleDocs ==
    << [title |-> "Welcome to Kiosk", content |-> 139, embedding |-> <<1, 0>>,
        category |-> "general", language |-> "en"],
       [title |-> "Services Available", content |-> 122, embedding |-> <<3, 4>>,
        category |-> "services", language |-> "en"],
       [title |-> "How to Use", content |-> 139, embedding |-> <<0, 1>>,
        category |-> "help", language |-> "en"] >>

\* DocumentModel.add_document: INSERT with an AUTOINCREMENT id
Insert(rows, doc) ==
    Append(rows, [id |-> Len(rows) + 1, title |-> doc.title, content |-> doc.content,
                  embedding |-> doc.embedding, category |-> doc.category,
                  language |-> doc.language])

RECURSIVE InsertAll(_, _)
InsertAll(rows, docs) ==
    IF docs = <<>> THEN rows ELSE InsertAll(Insert(rows, Head(docs)), Tail(docs))

\* the reranker_component argument of LLMComponent, before its initialize
Rerankers ==
    {[attached |-> FALSE, use_reranker |-> FALSE, is_initialized |-> FALSE, top_k |-> DefaultTopK]}
    \cup {[attached |-> TRUE, use_reranker |-> u, is_initialized |-> FALSE, top_k |-> DefaultTopK] :
             u \in BOOLEAN}

NoDirectCall == [op |-> "none"]

\* LLMComponent.__init__ (and RAGComponent.__init__, RerankerComponent.__init__)
Init ==
    /\ documents = <<>>
    /\ rag_kind \in RagKinds
    /\ rag_initialized = FALSE
    /\ reranker \in Rerankers
    /\ use_reranker \in BOOLEAN
    /\ server_url = "None"
    /\ is_initialized = FALSE
    /\ last = NoCall
    /\ call = NoDirectCall
    /\ session = NoSession
    /\ chatbot = NoChatbot

\* RerankerComponent.initialize: disabled in the configuration, model
\* loaded, or the import or the load failing
RerankerInitialize(self, load_ok) ==
    IF ~self.use_reranker
    THEN [self EXCEPT !.is_initialized = TRUE]
    ELSE IF load_ok
    THEN [self EXCEPT !.is_initialized = TRUE]
    ELSE [self EXCEPT !.use_reranker = FALSE, !.is_initialized = FALSE]

\* LLMComponent.initialize: the probe of GET /v1/models sets is_initialized;
\* then the RAG component is initialized (RAGComponent.initialize adds the
\* sample documents; if it raises, initialize raises and the reranker is not
\* reached), then the reranker.
Initialize(probe, rag_ok, load_ok) ==
    /\ server_url' = "http://localhost:8080"
    /\ is_initialized' = (probe = "200")
    /\ IF rag_kind # "None" /\ ~rag_initialized
       THEN IF rag_ok /\ Len(documents) + Len(SampleDocs) <= MaxDocs
            THEN /\ documents' = InsertAll(documents, SampleDocs)
                 /\ rag_initialized' = TRUE
            ELSE UNCHANGED <<documents, rag_initialized>>
       ELSE UNCHANGED <<documents, rag_initialized>>
    /\ IF (rag_kind # "None" /\ ~rag_initialized) => rag_ok
       THEN IF reranker.attached /\ ~reranker.is_initialized
            THEN reranker' = RerankerInitialize(reranker, load_ok)
            ELSE UNCHANGED reranker
       ELSE UNCHANGED reranker
    /\ last' = NoCall
    /\ UNCHANGED <<rag_kind, use_reranker, call>>
    /\ UNCHANGED <<session, chatbot>>

\* RAGComponent.add_document
AddDocument(doc) ==
    /\ rag_kind # "None"
    /\ rag_initialized
    /\ Len(documents) < MaxDocs
    /\ documents' = Insert(documents, doc)
    /\ last' = NoCall
    /\ UNCHANGED <<rag_kind, rag_initialized, reranker, use_reranker, server_url,
                   is_initialized, call>>
    /\ UNCHANGED <<session, chatbot>>

\* LLMComponent.check_server_health: GET /v1/models answered 200 or not (any
\* exception, also the one of a server_url still None, gives False); it
\* returns the outcome and assigns nothing
CheckServerHealth(probe) ==
    /\ call' = [op |-> "check_server_health",
                healthy |-> (server_url # "None" /\ probe = "200")]
    /\ last' = NoCall
    /\ UNCHANGED <<documents, rag_kind, rag_initialized, reranker, use_reranker,
                   server_url, is_initialized>>
    /\ UNCHANGED <<session, chatbot>>

\* generate_response clearing is_initialized when the completion call fails
GenerateResponseMarksUnavailable(use_rag, query_embedding, embed_ok, db_ok, predict, completion) ==
    LET result == GenerateResponseResult(use_rag, query_embedding, embed_ok, db_ok,
                                         predict, completion)
    IN  /\ last' = result
        /\ is_initialized' =
              (is_initialized
               /\ ~(result.attempted
                    /\ completion \in {"timeout", "non_200", "connection_error"}))
        /\ UNCHANGED <<documents, rag_kind, rag_initialized, reranker, use_reranker,
                       server_url, call>>
        /\ UNCHANGED <<session, chatbot>>

\* LLMComponent.generate_response
GenerateResponse(use_rag, query_embedding, embed_ok, db_ok, predict, completion) ==
    /\ last' = GenerateResponseResult(use_rag, query_embedding, embed_ok, db_ok,
                                      predict, completion)
    /\ UNCHANGED <<documents, rag_kind, rag_initialized, reranker, use_reranker,
                   server_url, is_initialized, call>>
    /\ UNCHANGED <<session, chatbot>>

----------------------------------------------------------------------------
(* The pipeline: inputs of the operations *)

ProbeOutcomes == {"200", "non_200", "exception"}

\* documents added to the knowledge base
NewDocs ==
    {[title |-> "Admissions", content |-> 900, embedding |-> <<4, 3>>,
      category |-> "Admissions", language |-> "en"],
     [title |-> "Library", content |-> 600, embedding |-> <<3, 4>>,
      category |-> "General Information", language |-> "en"]}

QueryEmbeddings == {<<1, 0>>, <<3, 4>>, <<0, 0>>}

\* cross-encoder outcomes for n documents: raising, or scores that rise with
\* the position, or that alternate in sign (with ties)
PredictOutcomes(n) ==
    {Raises}
    \cup {Scores([i \in 1..n |-> i]), Scores([i \in 1..n |-> 2 * (i % 2) - 1])}

\* The inputs a generate_response call consumes in the current state: the
\* query is embedded and the store read only when the search body runs, the
\* cross-encoder is asked only when the reranker scores, and the completion
\* request comes to something only when it is sent.
RetrievalInputs(use_rag) ==
    IF use_rag /\ rag_kind = "ThresholdRetriever" /\ rag_initialized
    THEN {[query |-> q, embed_ok |-> TRUE, db_ok |-> TRUE] : q \in QueryEmbeddings}
         \cup {[query |-> <<1, 0>>, embed_ok |-> FALSE, db_ok |-> TRUE],
               [query |-> <<1, 0>>, embed_ok |-> TRUE, db_ok |-> FALSE]}
    ELSE {[query |-> <<1, 0>>, embed_ok |-> TRUE, db_ok |-> TRUE]}

PredictInputs ==
    IF use_reranker /\ reranker.attached /\ reranker.is_initialized /\ reranker.use_reranker
    THEN PredictOutcomes(Len(documents))
    ELSE {Raises}

CompletionInputs == IF is_initialized THEN CompletionOutcomes ELSE {"none"}

Next ==
    \/ \E probe \in ProbeOutcomes, rag_ok \in BOOLEAN, load_ok \in BOOLEAN :
          Initialize(probe, rag_ok, load_ok)
    \/ \E doc \in NewDocs : AddDocument(doc)
    \/ \E probe \in ProbeOutcomes : CheckServerHealth(probe)
    \/ \E use_rag \in BOOLEAN :
          \E r \in RetrievalInputs(use_rag), predict \in PredictInputs,
             completion \in CompletionInputs :
             GenerateResponse(use_rag, r.query, r.embed_ok, r.db_ok, predict, completion)

Spec == Init /\ [][Next]_vars

----------------------------------------------------------------------------
(* The retriever on its own: RAGComponent over a growing documents table *)

\* RAGComponent.initialize: connect, create the schema, load the embedding
\* model, add the sample documents; ok = FALSE is one of these raising
\* before any document is added
RAGInitialize(ok) ==
    /\ ok
    /\ Len(documents) + Len(SampleDocs) <= MaxDocs
    /\ documents' = InsertAll(documents, SampleDocs)
    /\ rag_initialized' = TRUE
    /\ call' = NoDirectCall
    /\ UNCHANGED <<rag_kind, reranker, use_reranker, server_url, is_initialized, last>>
    /\ UNCHANGED <<session, chatbot>>

\* a direct call of RAGComponent.search(query, limit, category, language)
Search(query_embedding, embed_ok, limit, category, language, db_ok) ==
    /\ call' = [op |-> "search", query |-> query_embedding, limit |-> limit,
                category |-> category, language |-> language,
                failed |-> ~embed_ok \/ ~db_ok,
                result |-> RAGSearch(rag_initialized, documents, query_embedding, embed_ok,
                                     limit, category, language, db_ok)]
    /\ UNCHANGED <<documents, rag_kind, rag_initialized, reranker, use_reranker,
                   server_url, is_initialized, last>>
    /\ UNCHANGED <<session, chatbot>>

\* RAGComponent.add_document called directly
StoreDocument(doc) ==
    /\ rag_initialized
    /\ Len(documents) < MaxDocs
    /\ documents' = Insert(documents, doc)
    /\ call' = NoDirectCall
    /\ UNCHANGED <<rag_kind, rag_initialized, reranker, use_reranker, server_url,
                   is_initialized, last>>
    /\ UNCHANGED <<session, chatbot>>

\* documents stored in the retriever's checks
StoredDocs ==
    {[title |-> "Admissions", content |-> 900, embedding |-> <<4, 3>>,
      category |-> "Admissions", language |-> "en"],
     [title |-> "Library", content |-> 600, embedding |-> <<3, 4>>,
      category |-> "general", language |-> "en"],
     [title |-> "Hostels", content |-> 150, embedding |-> <<0, 0>>,
      category |-> "general", language |-> "hi"]}

SearchQueries == {<<1, 0>>, <<3, 4>>, <<4, 3>>, <<0, 0>>}

SearchLimits == {1, 3, RetrievalLimit}

\* "" is no filter (None)
SearchCategories == {"", "general", "Visitors"}

SearchLanguages == {"", "hi"}

InitSearch ==
    /\ documents = <<>>
    /\ rag_kind = "RAGComponent"
    /\ rag_initialized = FALSE
    /\ reranker = [attached |-> FALSE, use_reranker |-> FALSE, is_initialized |-> FALSE,
                   top_k |-> DefaultTopK]
    /\ use_reranker = TRUE
    /\ server_url = "None"
    /\ is_initialized = FALSE
    /\ last = NoCall
    /\ call = NoDirectCall
    /\ session = NoSession
    /\ chatbot = NoChatbot

NextSearch ==
    \/ \E ok \in BOOLEAN : RAGInitialize(ok)
    \/ \E doc \in StoredDocs : StoreDocument(doc)
    \/ \E q \in SearchQueries, limit \in SearchLimits,
          category \in SearchCategories, language \in SearchLanguages :
          Search(q, TRUE, limit, category, language, TRUE)
    \/ \E embed_ok \in BOOLEAN : Search(<<1, 0>>, embed_ok, RetrievalLimit, "", "", ~embed_ok)

SpecSearch == InitSearch /\ [][NextSearch]_vars

----------------------------------------------------------------------------
(* The reranker on its own *)

\* search results handed to rerank: dicts without a rerank score
Candidates ==
    << [id |-> 1, title |-> "Admissions", content |-> 900, similarity |-> 25],
       [id |-> 2, title |-> "Library", content |-> 600, similarity |-> 24],
       [id |-> 3, title |-> "Hostels", content |-> 150, similarity |-> 20],
       [id |-> 4, title |-> "Library", content |-> 700, similarity |-> 20],
       [id |-> 5, title |-> "Admissions", content |-> 100, similarity |-> 15],
       [id |-> 6, title |-> "Hostels", content |-> 300, similarity |-> 12],
       [id |-> 7, title |-> "Library", content |-> 300, similarity |-> 10],
       [id |-> 8, title |-> "Hostels", content |-> 300, similarity |-> 9] >>

\* the top_k argument: None, or a number
TopKArgs == {None} \cup {Some(k) : k \in {0, 1, 3, MaxRerankDocs + 1}}

\* RerankerComponent.initialize called directly
InitializeReranker(load_ok) ==
    /\ reranker.attached
    /\ reranker' = RerankerInitialize(reranker, load_ok)
    /\ call' = NoDirectCall
    /\ UNCHANGED <<documents, rag_kind, rag_initialized, use_reranker, server_url,
                   is_initialized, last>>
    /\ UNCHANGED <<session, chatbot>>

\* RerankerComponent.cleanup
CleanupReranker ==
    /\ reranker.attached
    /\ reranker' = [reranker EXCEPT !.is_initialized = FALSE]
    /\ call' = NoDirectCall
    /\ UNCHANGED <<documents, rag_kind, rag_initialized, use_reranker, server_url,
                   is_initialized, last>>
    /\ UNCHANGED <<session, chatbot>>

\* a direct call of rerank(query, docs, top_k) (or rerank_sync)
RerankCall(docs, top_k, predict) ==
    /\ reranker.attached
    /\ LET r == Rerank(reranker, docs, top_k, predict)
       IN  call' = [op |-> "rerank", input |-> docs, top_k |-> top_k,
                    raised |-> r.scored = FALSE /\ reranker.use_reranker
                               /\ reranker.is_initialized /\ docs # <<>>,
                    scored |-> r.scored, result |-> r.result, documents |-> r.documents]
    /\ UNCHANGED <<documents, rag_kind, rag_initialized, reranker, use_reranker,
                   server_url, is_initialized, last>>
    /\ UNCHANGED <<session, chatbot>>

\* the cross-encoder is asked only when the reranker is enabled and loaded;
\* its scores rise with the position, alternate, are all equal, or repeat
\* 1, 1, 0
DirectPredictInputs(n) ==
    IF reranker.use_reranker /\ reranker.is_initialized /\ n > 0
    THEN PredictOutcomes(n)
         \cup {Scores([i \in 1..n |-> 0]), Scores([i \in 1..n |-> (i * i) % 3])}
    ELSE {Raises}

InitRerank ==
    /\ documents = <<>>
    /\ rag_kind = "None"
    /\ rag_initialized = FALSE
    /\ reranker \in {r \in Rerankers : r.attached}
    /\ use_reranker = TRUE
    /\ server_url = "None"
    /\ is_initialized = FALSE
    /\ last = NoCall
    /\ call = NoDirectCall
    /\ session = NoSession
    /\ chatbot = NoChatbot

NextRerank ==
    \/ \E load_ok \in BOOLEAN : InitializeReranker(load_ok)
    \/ CleanupReranker
    \/ \E n \in 0..MaxRerankDocs, top_k \in TopKArgs :
          \E predict \in DirectPredictInputs(n) :
             RerankCall(Take(Candidates, n), top_k, predict)

SpecRerank == InitRerank /\ [][NextRerank]_vars

----------------------------------------------------------------------------
(* Properties of generate_response (checked under Spec) *)

\* the documents rendered by the latest call, in rendered order
Rendered == RenderedDocs(last.context)

\* the completion call came to a failure
CallFailed == last.completion \in {"timeout", "non_200", "connection_error"}

\* initialize has run and its probe failed
Unavailable == server_url # "None" /\ ~last.initialized

\* C1: every generate_response call returns an answer string (generated,
\* extractive or an apology), never None.
C1_EveryRequestAnswered ==
    last.called => last.response.kind # "None"

\* C2: when the reranker scored the documents, the context renders exactly
\* the reranker's output, in the reranker's order.
C2_RerankOrderPreserved ==
    (last.called /\ last.rerank_scored) =>
        (last.context_built /\ Rendered = last.rerank_result)

\* C2 witness: a reranked call over more than five retrieved documents whose
\* rendered order is not the similarity order.
C2_Witness ==
    /\ last.called
    /\ last.rerank_scored
    /\ Len(last.retrieved) > FinalTopK
    /\ Len(Rendered) = FinalTopK
    /\ Rendered # Take(last.retrieved, FinalTopK)

\* C3: when the reranker did not score (disabled, absent, uninitialized, or
\* raising), the context renders the first five retrieved documents in the
\* retriever's order.
C3_DegradedKeepsRetrieverOrder ==
    (last.called /\ last.retrieved # <<>> /\ ~last.rerank_scored) =>
        Rendered = Take(last.retrieved, FinalTopK)

C6_UnavailableFallback ==
    (last.called /\ ~last.initialized) =>
        /\ ~last.attempted
        /\ IF last.retrieved # <<>>
           THEN /\ last.response.kind = "extractive"
                /\ last.final # <<>>
                /\ last.response.doc = last.final[1]
           ELSE last.response = Apology

\* C7: when the completion request meets a connection error or a non-2xx
\* status, the answer is the extractive fallback of the top-ranked document
\* when context exists and the fixed apology otherwise.
C7_FailureGivesFallback ==
    (last.called /\ last.attempted /\ last.completion \in {"connection_error", "non_200"}) =>
        IF last.final # <<>>
        THEN /\ last.response.kind = "extractive"
             /\ last.response.doc = last.final[1]
        ELSE last.response = Apology

\* C8 as stated: from Unavailable, a request that gets as far as answering
\* still attempts the backend.
C8_UnavailableStillAttempts ==
    (last.called /\ Unavailable /\ ~last.raised) => last.attempted

\* C8 as amended: from Unavailable, a request makes no completion request,
\* its answer is not a generated one, and the state is still Unavailable
\* after it.
C8_UnavailableUsesFallback ==
    (last.called /\ Unavailable) =>
        /\ ~last.attempted
        /\ last.response.kind \in {"extractive", "apology", "None"}
        /\ ~is_initialized

\* C8 witness: a request answered from the fallback in the Unavailable state.
C8_Witness ==
    /\ last.called
    /\ Unavailable
    /\ last.response.kind = "extractive"

\* C9 as stated: after a failed completion call from Healthy the state is
\* Unavailable.
C9_FailureMarksUnavailable ==
    (last.called /\ last.initialized /\ last.attempted /\ CallFailed) => ~is_initialized

\* C9 as amended: after a failed completion call from Healthy the state is
\* still Healthy.
C9_FailureLeavesHealthy ==
    (last.called /\ last.initialized /\ last.attempted /\ CallFailed) => is_initialized

\* C9 witness: each kind of failure met by a call made in the Healthy state.
C9_Witness ==
    /\ last.called
    /\ last.initialized
    /\ last.attempted
    /\ last.completion = "connection_error"
    /\ is_initialized

----------------------------------------------------------------------------
(* Properties of the retriever (checked under SpecSearch) *)

\* C5: the similarity scores of a search result are non-increasing from the
\* first result to the last.
C5_SimilarityNonIncreasing ==
    call.op = "search" =>
        \A i, j \in 1..Len(call.result) :
            i < j => call.result[i].similarity >= call.result[j].similarity

\* C5 witness: a search returning at least three documents, not in storage
\* order, with different similarities.
C5_Witness ==
    /\ call.op = "search"
    /\ Len(call.result) >= 3
    /\ call.result[1].id > call.result[2].id
    /\ call.result[1].similarity > call.result[3].similarity

----------------------------------------------------------------------------
(* Properties of the reranker (checked under SpecRerank) *)

\* C10: when scoring raises, rerank(query, documents, top_k) returns the
\* first top_k input documents in input order, and neither the returned nor
\* the input documents carry a rerank score.
C10_RaiseReturnsPrefix ==
    (call.op = "rerank" /\ call.raised /\ call.top_k # None) =>
        /\ call.result = Take(call.input, TheValue(call.top_k))
        /\ call.documents = call.input
        /\ \A i \in 1..Len(call.documents) : "rerank_score" \notin DOMAIN call.documents[i]

\* C11: a successful rerank call leaves every object of its input list as it
\* was before the call (no field added or changed, same order).
C11_InputObjectsUnchanged ==
    (call.op = "rerank" /\ call.scored) => call.documents = call.input

\* C12: a successful rerank of n documents with top_k = k >= 1 returns
\* min(k, n) documents in non-increasing order of rerank score, each scoring
\* at least as high as every input document that is not returned.
C12_TopKByRerankScore ==
    (call.op = "rerank" /\ call.scored /\ call.top_k # None /\ call.top_k # Some(0)) =>
        LET k == TheValue(call.top_k)
            result == call.result
            returned == {result[i].id : i \in 1..Len(result)}
        IN  /\ Len(result) = Min(k, Len(call.input))
            /\ \A i, j \in 1..Len(result) :
                  i < j => result[i]["rerank_score"] >= result[j]["rerank_score"]
            /\ \A i \in 1..Len(result), j \in 1..Len(call.documents) :
                  call.documents[j].id \notin returned =>
                      result[i]["rerank_score"] >= call.documents[j]["rerank_score"]

\* C12 witness: a scored call that returns fewer documents than it was given,
\* not the input prefix, with a tie among the returned scores.
C12_Witness ==
    /\ call.op = "rerank"
    /\ call.scored
    /\ call.top_k = Some(3)
    /\ Len(call.input) > 3
    /\ Len(call.result) = 3
    /\ Ids(call.result) # Ids(Take(call.input, 3))
    /\ call.result[1]["rerank_score"] = call.result[2]["rerank_score"]

----------------------------------------------------------------------------
(* Further properties of generate_response (checked under Spec) *)

\* C13: the used_reranking flag of a generate_response call is true exactly
\* when the reranker scored and ordered the documents; it is false when
\* rerank returned the unscored input prefix.
C13_FlagIffScored ==
    last.called => (last.used_reranking <=> last.rerank_scored)

\* the parts of the prompt the latest call built, by kind
PromptKinds == [i \in 1..Len(last.prompt) |-> last.prompt[i].part]

\* C14: when the RAG component is attached and retrieval yields no
\* documents, the prompt holds no context section and the call still returns
\* an answer string.
C14_NoDocumentsStillAnswered ==
    (last.called /\ last.searched /\ last.retrieved = <<>>) =>
        /\ \A i \in 1..Len(last.prompt) : last.prompt[i].part # "context"
        /\ last.response.kind # "None"

----------------------------------------------------------------------------
(* Prompt assembly on its own *)

\* conversation turns: {"role": ..., "content": ...}
Turns == [role : {"user", "assistant"}, content : {"What is IIITM?", "An institute."}]

\* conversation histories of up to MaxTurns turns
Histories == UNION {[1..n -> Turns] : n \in 0..MaxTurns}

PromptQuestions == {"What programs do they offer?", "How do I apply?"}

\* context strings: empty, or rendered from one or two documents
PromptContexts == {FormatRagContext(Take(Candidates, n), FALSE) : n \in 0..2}

\* a direct call of _build_prompt(user_query, rag_context, conversation_history)
BuildPromptCall(user_query, rag_context, conversation_history) ==
    /\ call' = [op |-> "build_prompt", user_query |-> user_query,
                rag_context |-> rag_context,
                conversation_history |-> conversation_history,
                prompt |-> BuildPrompt(user_query, rag_context, conversation_history)]
    /\ UNCHANGED <<documents, rag_kind, rag_initialized, reranker, use_reranker,
                   server_url, is_initialized, last>>
    /\ UNCHANGED <<session, chatbot>>

InitPrompt ==
    /\ documents = <<>>
    /\ rag_kind = "None"
    /\ rag_initialized = FALSE
    /\ reranker = [attached |-> FALSE, use_reranker |-> FALSE, is_initialized |-> FALSE,
                   top_k |-> DefaultTopK]
    /\ use_reranker = TRUE
    /\ server_url = "None"
    /\ is_initialized = FALSE
    /\ last = NoCall
    /\ call = NoDirectCall
    /\ session = NoSession
    /\ chatbot = NoChatbot

NextPrompt ==
    \E q \in PromptQuestions, c \in PromptContexts, h \in Histories :
        BuildPromptCall(q, c, h)

SpecPrompt == InitPrompt /\ [][NextPrompt]_vars

\* C15: the built prompt is, in this order, the system instruction, the
\* context block unless the context is empty, every supplied conversation
\* turn as a role-prefixed line in history order, the question line, and
\* the "Answer:" cue as the last line.
C15_PromptStructure ==
    call.op = "build_prompt" =>
        LET history == call.conversation_history
            turns == [i \in 1..Len(history) |->
                         PromptPart("turn", history[i].role, history[i].content, <<>>)]
        IN  call.prompt =
                <<BuildSystemPrompt>>
                \o (IF call.rag_context.len > 0
                    THEN <<PromptPart("context", "", "CONTEXT:", call.rag_context.blocks)>>
                    ELSE <<>>)
                \o turns
                \o <<PromptPart("question", "", call.user_query, <<>>),
                     PromptPart("answer_cue", "", "Answer:", <<>>)>>

----------------------------------------------------------------------------
(* LLMComponent._post_process_response. A text is the sequence of its    *)
(* characters, each a one-character string.                               *)

\* the text[i:i+len(pattern)] == pattern test behind "in", find and split
OccursAt(text, pattern, i) ==
    /\ i + Len(pattern) - 1 <= Len(text)
    /\ \A k \in 1..Len(pattern) : text[i + k - 1] = pattern[k]

\* text.find(pattern) + 1: the position of the first occurrence, 0 for none
Find(text, pattern) ==
    LET hits == {i \in 1..Len(text) : OccursAt(text, pattern, i)}
    IN  IF hits = {} THEN 0 ELSE CHOOSE i \in hits : \A j \in hits : i <= j

\* pattern in text
Contains(text, pattern) == Find(text, pattern) # 0

\* text.split(pattern)[0]
SplitHead(text, pattern) ==
    IF Contains(text, pattern) THEN SubSeq(text, 1, Find(text, pattern) - 1) ELSE text

\* the markers of the loop at line 214, in list order
Markers ==
    <<<<"U", "s", "e", "r", ":">>,
      <<"A", "s", "s", "i", "s", "t", "a", "n", "t", ":">>,
      <<"C", "O", "N", "T", "E", "X", "T">>,
      <<"=", "=", "=">>,
      <<"[", "D", "o", "c", "u", "m", "e", "n", "t">>>>

\* the loop at lines 214-216 from marker i on
RECURSIVE TruncateFrom(_, _)
TruncateFrom(text, i) ==
    IF i > Len(Markers)
    THEN text
    ELSE TruncateFrom(SplitHead(text, Markers[i]), i + 1)

\* the marker loop ending at the first marker of the list found in the text
TruncateAtFirstListedMarker(text) ==
    LET found == {i \in 1..Len(Markers) : Contains(text, Markers[i])}
    IN  IF found = {}
        THEN text
        ELSE SplitHead(text, Markers[CHOOSE i \in found : \A j \in found : i <= j])

\* lines 214-216
TruncateAtMarkers(text) == TruncateFrom(text, 1)

NewLine == "\n"

\* text.replace("\n\n\n", "\n\n"): occurrences are replaced from the left,
\* without overlap
RECURSIVE ReplaceTripleNewline(_)
ReplaceTripleNewline(text) ==
    IF text = <<>>
    THEN <<>>
    ELSE IF OccursAt(text, <<NewLine, NewLine, NewLine>>, 1)
    THEN <<NewLine, NewLine>> \o ReplaceTripleNewline(SubSeq(text, 4, Len(text)))
    ELSE <<Head(text)>> \o ReplaceTripleNewline(Tail(text))

\* lines 217-218: while "\n\n\n" in text
RECURSIVE CollapseNewlines(_)
CollapseNewlines(text) ==
    IF Contains(text, <<NewLine, NewLine, NewLine>>)
    THEN CollapseNewlines(ReplaceTripleNewline(text))
    ELSE text

\* str.isspace for the characters of the texts
IsSpace(c) == c \in {" ", NewLine, "\t", "\r"}

\* text.strip()
Strip(text) ==
    LET solid == {i \in 1..Len(text) : ~IsSpace(text[i])}
    IN  IF solid = {}
        THEN <<>>
        ELSE SubSeq(text, CHOOSE i \in solid : \A j \in solid : i <= j,
                          CHOOSE i \in solid : \A j \in solid : i >= j)

UpperLetters ==
    <<"A", "B", "C", "D", "E", "F", "G", "H", "I", "J", "K", "L", "M", "N",
      "O", "P", "Q", "R", "S", "T", "U", "V", "W", "X", "Y", "Z">>

LowerLetters ==
    <<"a", "b", "c", "d", "e", "f", "g", "h", "i", "j", "k", "l", "m", "n",
      "o", "p", "q", "r", "s", "t", "u", "v", "w", "x", "y", "z">>

\* c.lower() and c.upper() of one ASCII character
LowerChar(c) ==
    IF \E i \in 1..Len(UpperLetters) : UpperLetters[i] = c
    THEN LowerLetters[CHOOSE i \in 1..Len(UpperLetters) : UpperLetters[i] = c]
    ELSE c

UpperChar(c) ==
    IF \E i \in 1..Len(LowerLetters) : LowerLetters[i] = c
    THEN UpperLetters[CHOOSE i \in 1..Len(LowerLetters) : LowerLetters[i] = c]
    ELSE c

\* text.lower()
Lower(text) == [i \in 1..Len(text) |-> LowerChar(text[i])]

\* text_lower.startswith(phrase)
StartsWith(text, phrase) == OccursAt(text, phrase, 1)

\* avoid_phrases, lines 220-225
AvoidPhrases ==
    <<<<"b", "a", "s", "e", "d", " ", "o", "n", " ", "t", "h", "e", " ",
        "c", "o", "n", "t", "e", "x", "t">>,
      <<"a", "c", "c", "o", "r", "d", "i", "n", "g", " ", "t", "o", " ",
        "t", "h", "e", " ", "p", "r", "o", "v", "i", "d", "e", "d", " ",
        "i", "n", "f", "o", "r", "m", "a", "t", "i", "o", "n">>,
      <<"f", "r", "o", "m", " ", "t", "h", "e", " ", "k", "n", "o", "w",
        "l", "e", "d", "g", "e", " ", "b", "a", "s", "e">>,
      <<"t", "h", "e", " ", "c", "o", "n", "t", "e", "x", "t", " ", "s",
        "h", "o", "w", "s">>>>

\* lines 230-234: text.split(":", 1), and when there is a second part, that
\* part stripped and its first character upper-cased
AfterColon(text) ==
    IF Contains(text, <<":">>)
    THEN LET rest == Strip(SubSeq(text, Find(text, <<":">>) + 1, Len(text)))
         IN  IF rest # <<>> THEN <<UpperChar(Head(rest))>> \o Tail(rest) ELSE rest
    ELSE text

\* the preamble test made on the text itself, not on its lower-cased copy
RECURSIVE DropPreambleCaseSensitive(_, _, _)
DropPreambleCaseSensitive(text, text_lower, i) ==
    IF i > Len(AvoidPhrases)
    THEN text
    ELSE DropPreambleCaseSensitive(
             IF StartsWith(text, AvoidPhrases[i]) THEN AfterColon(text) ELSE text,
             text_lower, i + 1)

\* the loop at lines 228-234 from phrase i on; text_lower is the lower-cased
\* copy taken once, before the loop (line 227)
RECURSIVE DropPreamble(_, _, _)
DropPreamble(text, text_lower, i) ==
    IF i > Len(AvoidPhrases)
    THEN text
    ELSE DropPreamble(
             IF StartsWith(text_lower, AvoidPhrases[i]) THEN AfterColon(text) ELSE text,
             text_lower, i + 1)

\* LLMComponent._post_process_response, with the values of its local
\* variable after the marker loop and after strip()
PostProcessResponse(text) ==
    LET truncated == TruncateAtMarkers(text)
        trimmed == Strip(CollapseNewlines(truncated))
    IN  [truncated |-> truncated, trimmed |-> trimmed,
         result |-> DropPreamble(trimmed, Lower(trimmed), 1)]

----------------------------------------------------------------------------
(* Post-processing on its own *)

\* pieces the raw response texts are put together from: plain words, every
\* marker, a lone "=", a preamble phrase in mixed and in lower case, a
\* colon followed by lower-case words and a second colon, blank lines, and
\* a colon followed by "user:" in lower case
Pieces ==
    <<<<"P", "a", "r", "i", "s", ".", " ">>,
      <<"U", "s", "e", "r", ":">>,
      <<"A", "s", "s", "i", "s", "t", "a", "n", "t", ":">>,
      <<"C", "O", "N", "T", "E", "X", "T">>,
      <<"=", "=", "=">>,
      <<"[", "D", "o", "c", "u", "m", "e", "n", "t">>,
      <<"B", "a", "s", "e", "d", " ", "o", "n", " ", "t", "h", "e", " ",
        "C", "o", "n", "t", "e", "x", "t">>,
      <<":", " ", "i", "t", " ", "i", "s", " ", "9", ":", "3", "0", " ">>,
      <<"\n", "\n">>,
      <<"=">>,
      <<"t", "h", "e", " ", "c", "o", "n", "t", "e", "x", "t", " ", "s",
        "h", "o", "w", "s">>,
      <<":", " ", "u", "s", "e", "r", ":", " ", "h", "i">>>>

\* the texts made of up to n pieces
RECURSIVE TextsOf(_)
TextsOf(n) ==
    IF n = 0
    THEN {<<>>}
    ELSE LET shorter == TextsOf(n - 1)
         IN  shorter \cup {t \o Pieces[i] : t \in shorter, i \in 1..Len(Pieces)}

RawTexts == TextsOf(MaxPieces)

\* _post_process_response applied to the raw text at hand
PostProcessCall ==
    /\ call.op = "raw_text"
    /\ LET r == PostProcessResponse(call.text)
       IN  call' = [op |-> "post_process", text |-> call.text,
                    truncated |-> r.truncated, trimmed |-> r.trimmed,
                    result |-> r.result]
    /\ UNCHANGED <<documents, rag_kind, rag_initialized, reranker, use_reranker,
                   server_url, is_initialized, last>>
    /\ UNCHANGED <<session, chatbot>>

\* a raw completion text has arrived
InitPostProcess ==
    /\ documents = <<>>
    /\ rag_kind = "None"
    /\ rag_initialized = FALSE
    /\ reranker = [attached |-> FALSE, use_reranker |-> FALSE, is_initialized |-> FALSE,
                   top_k |-> DefaultTopK]
    /\ use_reranker = TRUE
    /\ server_url = "None"
    /\ is_initialized = FALSE
    /\ last = NoCall
    /\ call \in {[op |-> "raw_text", text |-> t] : t \in RawTexts}
    /\ session = NoSession
    /\ chatbot = NoChatbot

NextPostProcess == PostProcessCall

SpecPostProcess == InitPostProcess /\ [][NextPostProcess]_vars

\* C16 as stated: the marker loop keeps the part of the text before the
\* earliest occurrence of any of "User:", "CONTEXT", "===", "[Document".
C16_CutAtEarliestOfFour ==
    call.op = "post_process" =>
        LET four == {Markers[1], Markers[3], Markers[4], Markers[5]}
            hits == {Find(call.text, m) : m \in four} \ {0}
        IN  call.truncated =
                IF hits = {}
                THEN call.text
                ELSE SubSeq(call.text, 1, (CHOOSE i \in hits : \A j \in hits : i <= j) - 1)

\* C16 as amended: the marker loop keeps the part of the text before the
\* earliest occurrence of any of "User:", "Assistant:", "CONTEXT", "===",
\* "[Document", whatever the order of the markers in the text, and the
\* kept part, which the later steps work on, holds none of them, before and
\* after it is trimmed.
C16_CutAtEarliestMarker ==
    call.op = "post_process" =>
        LET hits == {Find(call.text, Markers[k]) : k \in 1..Len(Markers)} \ {0}
        IN  /\ call.truncated =
                  IF hits = {}
                  THEN call.text
                  ELSE SubSeq(call.text, 1, (CHOOSE i \in hits : \A j \in hits : i <= j) - 1)
            /\ \A k \in 1..Len(Markers) :
                  /\ ~Contains(call.truncated, Markers[k])
                  /\ ~Contains(call.trimmed, Markers[k])

\* C16 witness: a text holding "User:" and, before it, "===", with text kept
\* in front of both.
C16_Witness ==
    /\ call.op = "post_process"
    /\ Contains(call.text, Markers[4])
    /\ Find(call.text, Markers[1]) > Find(call.text, Markers[4])
    /\ call.truncated # <<>>
    /\ Len(call.truncated) = Find(call.text, Markers[4]) - 1

\* C17: when the truncated, trimmed text begins with an avoided phrase
\* (compared in lower case) and holds a colon, the result is the text after
\* the first colon, trimmed, with its first character upper-cased; otherwise
\* the result is the trimmed text itself.
C17_PreambleDropped ==
    call.op = "post_process" =>
        LET t == call.trimmed
            begins == \E k \in 1..Len(AvoidPhrases) : StartsWith(Lower(t), AvoidPhrases[k])
            rest == Strip(SubSeq(t, Find(t, <<":">>) + 1, Len(t)))
        IN  IF begins /\ Contains(t, <<":">>)
            THEN call.result =
                    IF rest = <<>> THEN <<>> ELSE <<UpperChar(rest[1])>> \o Tail(rest)
            ELSE call.result = t

\* C17 witness: a text beginning "Based on the Context" (not in lower case)
\* with a colon after it, whose result begins with a letter that was made
\* upper case and still holds the second colon.
C17_Witness ==
    /\ call.op = "post_process"
    /\ StartsWith(call.trimmed, Pieces[7])
    /\ ~StartsWith(call.trimmed, AvoidPhrases[1])
    /\ call.result # <<>>
    /\ call.result[1] = "I"
    /\ Contains(call.result, <<":">>)
    /\ Len(call.result) < Len(call.trimmed) - Len(Pieces[7])

----------------------------------------------------------------------------
(* Timeouts and the health probe (checked under Spec) *)

\* C18: when the completion request times out, the call returns the "took
\* too long" message as its answer and no exception is raised.
C18_TimeoutGivesMessage ==
    (last.called /\ last.attempted /\ last.completion = "timeout") =>
        /\ ~last.raised
        /\ last.response = Answer("took_too_long")

\* C18 witness: a completion request that timed out, after context was built.
C18_Witness ==
    /\ last.called
    /\ last.attempted
    /\ last.completion = "timeout"
    /\ last.context_built
    /\ last.response.kind = "took_too_long"

\* C19 as stated: a request that gets as far as answering attempts the
\* completion call whatever the probe of initialize found.
C19_AttemptsWhateverTheProbe ==
    (last.called /\ server_url # "None" /\ last.prompt # <<>>) => last.attempted

\* C19 as amended: a request that gets as far as answering attempts the
\* completion call exactly when is_initialized holds, which is what the
\* probe of the latest initialize found; the outcome of check_server_health
\* plays no part.
C19_InitializeProbeGates ==
    (last.called /\ last.prompt # <<>>) =>
        /\ last.attempted <=> last.initialized
        /\ last.initialized => server_url # "None"

\* C19 witness: after a failed probe at initialize and a check_server_health
\* that found the server healthy, a request answers without attempting the
\* completion call.
C19_Witness ==
    /\ call.op = "check_server_health"
    /\ call.healthy
    /\ server_url # "None"
    /\ last.called
    /\ last.prompt # <<>>
    /\ ~last.initialized
    /\ ~last.attempted

----------------------------------------------------------------------------
(* The conversation histories on their own: the kiosk service holds a     *)
(* SessionManager, the demo script a ConversationalChatbot.               *)

\* session.max_history as configured
MaxHistoryValues == {0, 1, 3, DefaultMaxHistory}

\* SessionManager.start_session
StartSession ==
    /\ session.constructed
    /\ session' = StartedSession(session)
    /\ UNCHANGED <<documents, rag_kind, rag_initialized, reranker, use_reranker,
                   server_url, is_initialized, last, call, chatbot>>

\* SessionManager.end_session (also what cleanup does)
EndSession ==
    /\ session.constructed
    /\ session' = EndedSession(session)
    /\ UNCHANGED <<documents, rag_kind, rag_initialized, reranker, use_reranker,
                   server_url, is_initialized, last, call, chatbot>>

\* SessionManager.add_to_history(user_input, response)
AddToHistory ==
    /\ session.constructed
    /\ session.added < MaxSessionAdds
    /\ session' = AddedToHistory(session)
    /\ UNCHANGED <<documents, rag_kind, rag_initialized, reranker, use_reranker,
                   server_url, is_initialized, last, call, chatbot>>

\* SessionManager.process_interaction: a session is started unless one is
\* active, the response is generated and the interaction added
ProcessInteraction(timed_out) ==
    /\ session.constructed
    /\ session.added < MaxSessionAdds
    /\ LET a == IsSessionActive(session, timed_out)
           ready == IF ~a.active THEN StartedSession(a.self) ELSE a.self
       IN  session' = AddedToHistory(ready)
    /\ UNCHANGED <<documents, rag_kind, rag_initialized, reranker, use_reranker,
                   server_url, is_initialized, last, call, chatbot>>

\* one round of ConversationalChatbot.chat: the user's message is added, and
\* the assistant's when generate_response returned an answer
ChatTurn(answered) ==
    /\ chatbot.constructed
    /\ chatbot.added + 2 <= MaxChatAdds
    /\ LET asked == ChatAddedToHistory(chatbot, "user")
       IN  chatbot' = IF answered THEN ChatAddedToHistory(asked, "assistant") ELSE asked
    /\ UNCHANGED <<documents, rag_kind, rag_initialized, reranker, use_reranker,
                   server_url, is_initialized, last, call, session>>

\* the 'clear' command of chat: conversation_history.clear()
ChatClear ==
    /\ chatbot.constructed
    /\ chatbot' = NewChatbot
    /\ UNCHANGED <<documents, rag_kind, rag_initialized, reranker, use_reranker,
                   server_url, is_initialized, last, call, session>>

InitHistory ==
    /\ documents = <<>>
    /\ rag_kind = "None"
    /\ rag_initialized = FALSE
    /\ reranker = [attached |-> FALSE, use_reranker |-> FALSE, is_initialized |-> FALSE,
                   top_k |-> DefaultTopK]
    /\ use_reranker = TRUE
    /\ server_url = "None"
    /\ is_initialized = FALSE
    /\ last = NoCall
    /\ call = NoDirectCall
    /\ \/ /\ session \in {NewSessionManager(m) : m \in MaxHistoryValues}
          /\ chatbot = NoChatbot
       \/ /\ session = NoSession
          /\ chatbot = NewChatbot

NextHistory ==
    \/ StartSession
    \/ EndSession
    \/ AddToHistory
    \/ \E timed_out \in BOOLEAN : ProcessInteraction(timed_out)
    \/ \E answered \in BOOLEAN : ChatTurn(answered)
    \/ ChatClear

SpecHistory == InitHistory /\ [][NextHistory]_vars

\* C20: a conversation history never holds more entries than its cap
\* (max_history in the SessionManager, 2 * max_history in the chatbot), and
\* it holds exactly the most recently added entries, in the order they were
\* added.
C20_HistoryCappedFIFO ==
    /\ session.constructed =>
          LET h == session.conversation_history
          IN  /\ Len(h) <= session.max_history
              /\ Len(h) = Min(session.added, session.max_history)
              /\ \A i \in 1..Len(h) : h[i].user_input = session.added - Len(h) + i
    /\ chatbot.constructed =>
          LET h == chatbot.conversation_history
          IN  /\ Len(h) <= ChatMaxHistory * 2
              /\ Len(h) = Min(chatbot.added, ChatMaxHistory * 2)
              /\ \A i \in 1..Len(h) : h[i].content = chatbot.added - Len(h) + i

----------------------------------------------------------------------------
(* Failures of the reranker and the retriever *)

\* C21: when the initialized, enabled reranker raises during scoring inside
\* generate_response, the call goes on with the retriever's first five
\* documents and returns an answer string.
C21_RerankFailureStillAnswers ==
    (last.called /\ last.rerank_called /\ ~last.rerank_scored /\ reranker.use_reranker) =>
        /\ last.response.kind # "None"
        /\ last.context_built
        /\ RenderedDocs(last.context) = Take(last.retrieved, FinalTopK)

\* C22: the search call that generate_response makes on the RAGComponent
\* never raises: uninitialized, failing to embed or failing to read the
\* store, it gives an empty list, and the call goes on to build a prompt
\* without context.
C22_SearchNeverRaises ==
    (last.called /\ last.searched /\ rag_kind = "RAGComponent") =>
        /\ ~last.raised
        /\ last.retrieved = <<>> => PromptKinds = <<"system", "question", "answer_cue">>

----------------------------------------------------------------------------
(* The /interact endpoint of the service: one SessionManager, made at      *)
(* startup, serves the requests of every client. The handler and the      *)
(* coroutines it awaits never suspend on the event loop, so a request     *)
(* runs from start to end before the next one is taken.                   *)

\* the visitors whose conversations the requests belong to
Clients == {"visitor_a", "visitor_b"}

\* POST /interact with a text: process_interaction starts a session unless
\* one is active (a timed-out one is ended first), reads the history as
\* context, answers, and adds the interaction to the history
Interact(client, timed_out) ==
    /\ session.constructed
    /\ session.added < MaxSessionAdds
    /\ LET a == IsSessionActive(session, timed_out)
           ready == IF ~a.active THEN StartedSession(a.self) ELSE a.self
       IN  /\ session' = AddedToHistoryFrom(ready, client)
           /\ call' = [op |-> "interact", client |-> client,
                       context |-> ready.conversation_history,
                       cleared |-> IF ~a.active THEN session.conversation_history ELSE <<>>,
                       session_id |-> ready.current_session_id]
    /\ UNCHANGED <<documents, rag_kind, rag_initialized, reranker, use_reranker,
                   server_url, is_initialized, last, chatbot>>

\* after startup_event: the SessionManager is constructed and initialized
InitInteract ==
    /\ documents = <<>>
    /\ rag_kind = "None"
    /\ rag_initialized = FALSE
    /\ reranker = [attached |-> FALSE, use_reranker |-> FALSE, is_initialized |-> FALSE,
                   top_k |-> DefaultTopK]
    /\ use_reranker = TRUE
    /\ server_url = "None"
    /\ is_initialized = FALSE
    /\ last = NoCall
    /\ call = NoDirectCall
    /\ session \in {NewSessionManager(m) : m \in MaxHistoryValues \ {0}}
    /\ chatbot = NoChatbot

NextInteract ==
    \E client \in Clients, timed_out \in BOOLEAN : Interact(client, timed_out)

SpecInteract == InitInteract /\ [][NextInteract]_vars

\* C23: the history is per conversation: a request reads as context, adds
\* to, and clears only interactions that came with requests of its own
\* client.
C23_HistoryPerSession ==
    call.op = "interact" =>
        /\ \A i \in 1..Len(call.context) : call.context[i].sender = call.client
        /\ \A i \in 1..Len(call.cleared) : call.cleared[i].sender = call.client
        /\ \A i \in 1..Len(session.conversation_history) :
              session.conversation_history[i].sender = call.client

----------------------------------------------------------------------------
(* Context assembly on its own *)

\* s reversed
Reversed(s) == [i \in 1..Len(s) |-> s[Len(s) + 1 - i]]

\* a dict with neither title nor scores
BareDoc == [id |-> 9, content |-> 650]

\* rerank scores written on documents: on none, on every one (with ties and
\* negative scores), or on the documents at even positions only
ScoredAll(docs) ==
    [i \in 1..Len(docs) |-> SetField(docs[i], "rerank_score", ((i * i) % 3) - 1)]

ScoredEven(docs) ==
    [i \in 1..Len(docs) |->
        IF i % 2 = 0 THEN SetField(docs[i], "rerank_score", i) ELSE docs[i]]

\* document lists handed to _format_rag_context
ContextInputs ==
    LET plain == {Take(Candidates, n) : n \in 0..MaxContextDocs}
        ordered == plain \cup {Reversed(d) : d \in plain}
        scored == ordered \cup {ScoredAll(d) : d \in ordered}
                          \cup {ScoredEven(d) : d \in ordered}
    IN  scored \cup {<<BareDoc>> \o d : d \in scored}

\* _format_rag_context(rag_results, use_rerank_order) called on the list at
\* hand
FormatContextCall ==
    /\ call.op = "context_input"
    /\ LET r == FormatRagContextCall(call.rag_results, call.use_rerank_order)
       IN  call' = [op |-> "format_rag_context", input |-> call.rag_results,
                    use_rerank_order |-> call.use_rerank_order,
                    rag_results |-> r.rag_results, context |-> r.context,
                    calls |-> 1, first |-> r.context]
    /\ UNCHANGED <<documents, rag_kind, rag_initialized, reranker, use_reranker,
                   server_url, is_initialized, last, session, chatbot>>

\* the same call made again on the list as the first call left it
FormatContextAgain ==
    /\ call.op = "format_rag_context"
    /\ call.calls = 1
    /\ LET r == FormatRagContextCall(call.rag_results, call.use_rerank_order)
       IN  call' = [call EXCEPT !.rag_results = r.rag_results, !.context = r.context,
                                !.calls = 2]
    /\ UNCHANGED <<documents, rag_kind, rag_initialized, reranker, use_reranker,
                   server_url, is_initialized, last, session, chatbot>>

InitContext ==
    /\ documents = <<>>
    /\ rag_kind = "None"
    /\ rag_initialized = FALSE
    /\ reranker = [attached |-> FALSE, use_reranker |-> FALSE, is_initialized |-> FALSE,
                   top_k |-> DefaultTopK]
    /\ use_reranker = TRUE
    /\ server_url = "None"
    /\ is_initialized = FALSE
    /\ last = NoCall
    /\ call \in {[op |-> "context_input", rag_results |-> d, use_rerank_order |-> f] :
                    d \in ContextInputs, f \in BOOLEAN}
    /\ session = NoSession
    /\ chatbot = NoChatbot

NextContext ==
    \/ FormatContextCall
    \/ FormatContextAgain

SpecContext == InitContext /\ [][NextContext]_vars

\* C24: the context renders at most five documents, no document twice; the
\* i-th block carries the index i, the title of its document ("Unknown" for
\* a dict without title), the rerank score if the document has one and
\* otherwise its similarity, and the first 600 characters of the content at
\* most.
C24_BlockFields ==
    call.op = "format_rag_context" =>
        LET blocks == call.context.blocks
            DocOf(b) == CHOOSE d \in {call.input[k] : k \in 1..Len(call.input)} : d.id = b.doc
        IN  /\ Len(blocks) = Min(MaxSources, Len(call.input))
            /\ \A i, j \in 1..Len(blocks) : blocks[i].doc = blocks[j].doc => i = j
            /\ \A i \in 1..Len(blocks) :
                  LET d == DocOf(blocks[i])
                  IN  /\ blocks[i].index = i
                      /\ blocks[i].source = IF "title" \in DOMAIN d THEN d["title"] ELSE "Unknown"
                      /\ blocks[i].score =
                            IF "rerank_score" \in DOMAIN d
                            THEN [field |-> "relevance", value |-> d["rerank_score"]]
                            ELSE IF "similarity" \in DOMAIN d
                            THEN [field |-> "similarity", value |-> d["similarity"]]
                            ELSE [field |-> "none", value |-> 0]
                      /\ blocks[i].content = Min(d["content"], ContentCap)
                      /\ blocks[i].content <= ContentCap

\* C24 witness: more than five documents given and five rendered, among them
\* one shown with its rerank score, one with its similarity, and one whose
\* content was cut to 600 characters.
C24_Witness ==
    /\ call.op = "format_rag_context"
    /\ Len(call.input) > MaxSources
    /\ Len(call.context.blocks) = MaxSources
    /\ \E i, j, k \in 1..MaxSources :
          /\ call.context.blocks[i].score.field = "relevance"
          /\ call.context.blocks[j].score.field = "similarity"
          /\ call.context.blocks[k].content = ContentCap
          /\ \E n \in 1..Len(call.input) :
                /\ call.input[n].id = call.context.blocks[k].doc
                /\ call.input[n]["content"] > ContentCap

----------------------------------------------------------------------------
(* Further properties of the retriever (checked under SpecSearch) *)

\* C26: a search with limit k in which neither the embedding model nor the
\* store raises returns min(k, number of matching documents) results, each a
\* different matching document with its cosine similarity to the query; no
\* matching document left out is more similar than a returned one, and the
\* first result has the maximum similarity among the matching documents.
C26_TopKBySimilarity ==
    (call.op = "search" /\ ~call.failed) =>
        LET matching == {i \in 1..Len(documents) :
                            /\ call.category # "" => documents[i].category = call.category
                            /\ call.language # "" => documents[i].language = call.language}
            sim(i) == CosineSimilarity(call.query, documents[i].embedding)
            returned == {call.result[p].id : p \in 1..Len(call.result)}
        IN  /\ Len(call.result) = Min(call.limit, Cardinality(matching))
            /\ Cardinality(returned) = Len(call.result)
            /\ \A p \in 1..Len(call.result) :
                  \E i \in matching : /\ documents[i].id = call.result[p].id
                                       /\ call.result[p].similarity = sim(i)
                                       /\ call.result[p].title = documents[i].title
            /\ \A i \in matching :
                  documents[i].id \notin returned =>
                      \A p \in 1..Len(call.result) : sim(i) <= call.result[p].similarity
            /\ call.result # <<>> =>
                  \A i \in matching : sim(i) <= call.result[1].similarity

\* C26 witness: a search whose limit is below the number of matching
\* documents, returning "Admissions" first although documents stored before
\* it match too, and leaving out a less similar document.
C26_Witness ==
    /\ call.op = "search"
    /\ ~call.failed
    /\ Len(call.result) = call.limit
    /\ call.result[1].title = "Admissions"
    /\ call.result[1].id > 1
    /\ \E i \in 1..Len(documents) :
          /\ \A p \in 1..Len(call.result) : call.result[p].id # documents[i].id
          /\ CosineSimilarity(call.query, documents[i].embedding) < call.result[1].similarity

\* C27: every document a search with a category (language) filter returns has
\* that category (language); a stored document that passes the filters is
\* left out only when the result is full of documents that pass them or the
\* search failed; and when no stored document passes them the result is the
\* empty list.
C27_FilterExact ==
    call.op = "search" =>
        LET passes(d) == /\ call.category # "" => d.category = call.category
                         /\ call.language # "" => d.language = call.language
            returned == {call.result[p].id : p \in 1..Len(call.result)}
        IN  /\ \A p \in 1..Len(call.result) :
                  /\ call.category # "" => call.result[p].category = call.category
                  /\ call.language # "" => call.result[p].language = call.language
            /\ \A i \in 1..Len(documents) :
                  (passes(documents[i]) /\ documents[i].id \notin returned) =>
                      call.failed \/ Len(call.result) = call.limit
            /\ (\A i \in 1..Len(documents) : ~passes(documents[i])) => call.result = <<>>

\* C27 witness: a search filtered by category and by language that returns
\* a document although stored documents failing a filter are more similar
\* to the query.
C27_Witness ==
    /\ call.op = "search"
    /\ call.category # ""
    /\ call.language # ""
    /\ call.result # <<>>
    /\ \E i \in 1..Len(documents) :
          /\ documents[i].category = call.category
          /\ documents[i].language # call.language
          /\ CosineSimilarity(call.query, documents[i].embedding) > call.result[1].similarity

----------------------------------------------------------------------------
(* Further properties of the reranker (checked under SpecRerank) *)

\* C28: a rerank call given top_k >= 0 returns at most top_k documents on
\* every path (none for top_k = 0), and the configured default bounds the
\* result only when top_k is None.
C28_ExplicitTopKBounds ==
    call.op = "rerank" =>
        /\ call.top_k # None =>
              Len(call.result) = Min(TheValue(call.top_k), Len(call.input))
        /\ call.top_k = None =>
              Len(call.result) = Min(reranker.top_k, Len(call.input))

----------------------------------------------------------------------------
(* Further properties of post-processing (checked under SpecPostProcess) *)

\* C29: the text _post_process_response returns holds none of "User:",
\* "Assistant:", "CONTEXT", "===", "[Document", also when the preamble was
\* dropped and the first character of the rest made upper case.
C29_ResultHoldsNoMarker ==
    call.op = "post_process" =>
        \A k \in 1..Len(Markers) : ~Contains(call.result, Markers[k])

----------------------------------------------------------------------------
(* Further properties of the histories (checked under SpecHistory) *)

\* C30: whenever the SessionManager's conversation_history is not empty a
\* session is active (current_session_id is set): add_to_history without an
\* active session starts one first, and ending a session empties the history
\* together with the id.
C30_HistoryImpliesSession ==
    (session.constructed /\ session.conversation_history # <<>>) =>
        session.current_session_id # "None"

====
